---------------------------- MODULE Spec2Model ----------------------------
(***************************************************************************)
(* State-machine model of the HolidayApp scene engine (src/vite.config.ts; *)
(* src/unnamed/part_000 is the same application without the meteor pool).  *)
(*                                                                         *)
(* Numbers are fixed point.  Lengths, angles (radians), colour scalings    *)
(* and the values of Math.random() are integers in thousandths: 1000       *)
(* stands for 1.0, a draw u in 0..999 stands for a value of [0,1).         *)
(* Pointer coordinates are whole pixels.  Elapsed time is in milliseconds. *)
(* A value stored in a buffer is rounded to the nearest thousandth, which  *)
(* stands for the rounding of a store into a Float32Array.                 *)
(***************************************************************************)
EXTENDS Integers, Sequences, FiniteSets, TLC

VARIABLES
    config,            \* CONFIG: treeParticleCount, tiers, meteorCount
    state,             \* HolidayApp.state (AppState)
    treeBranchParams,  \* per particle: distFromCenter, tier, branchAngle, isBranch
    treeJitters,       \* per particle: jitter vector
    positions,         \* treeGeometry.attributes.position (live positions)
    colors,            \* treeGeometry.attributes.color
    meteors,           \* HolidayApp.meteors: the pool, in push order
    mainGroupRot,      \* mainGroup.rotation (x, y)
    galaxyFloor,       \* galaxyFloor.position.y and rotation.y
    heart,             \* heart.scale.x, heart.rotation.y, emissiveIntensity
    time,              \* clock.getElapsedTime() as read by the last frame (ms)
    frames,            \* number of update() calls so far
    handled,           \* number of pointer, theme and resize events handled so far
    limits,            \* horizon of the run: how many frames and events are explored
    handLandmarker,    \* HolidayApp.handLandmarker: "null" or "landmarker"
    video,             \* HolidayApp.video: el is "null" or the webcam element
    cv,                \* position of the async initCV and the page it runs in
    lastDetect,        \* what the last frame's hand detection did
    camera,            \* camera.aspect and the renderer size, set by onResize
    themeSelector,     \* value of the #theme-selector element
    uncaught,          \* number of exceptions that escaped a handler
    lastUp,            \* the last pointer-up that found the pointer held, and its gesture
    clickLog,          \* mode before each of the last two click-classified ups
    gesture,           \* the gesture in progress, as the events made it
    probe              \* a position integrated toward a constant target

vars == <<config, state, treeBranchParams, treeJitters, positions, colors,
          meteors, mainGroupRot, galaxyFloor, heart, time, frames, handled, limits,
          handLandmarker, video, cv, lastDetect, camera, themeSelector,
          uncaught, lastUp, clickLog, gesture, probe>>

---------------------------------------------------------------------------
(* Bounds of the exploration                                               *)

\* particles of the tree field (CONFIG.treeParticleCount is 100000)
ParticleCount == 2
\* update() calls explored from construction
MaxFrames == 1
\* pointer events explored
MaxPointerEvents == 2
\* changes of the theme selector explored
MaxThemeChanges == 1
\* resizes of the window explored
MaxResizes == 1

---------------------------------------------------------------------------
(* Arithmetic                                                              *)

Abs(a) == IF a < 0 THEN -a ELSE a

Max(a, b) == IF a >= b THEN a ELSE b

\* a / b rounded to the nearest integer (b > 0), halves upward
RoundDiv(a, b) == (2 * a + b) \div (2 * b)

\* a * n / d rounded to the nearest integer: a product of fixed-point values
Scale(a, n, d) == RoundDiv(a * n, d)

\* a * n / d rounded to the nearest integer for a large a and a d that is a
\* multiple of 1000: the product is formed in two parts so that it stays
\* within the integer range
MulDiv(a, n, d) ==
    RoundDiv((a \div 1000) * n + RoundDiv((a % 1000) * n, 1000), d \div 1000)

\* the result of 0/0 and of every operation on it (IEEE NaN)
NaN == 2000000000

Pi == 3142

TwoPi == 6283

\* Math.sin of an angle in thousandths of a radian, in thousandths
\* (Bhaskara's rational approximation on [0, pi], odd and 2*pi-periodic)
SinHalf(x) == (16 * x * (Pi - x)) \div ((5 * Pi * Pi - 4 * x * (Pi - x)) \div 1000)

Sin(a) ==
    LET r == a % TwoPi
    IN  IF r <= Pi THEN SinHalf(r) ELSE -SinHalf(Max(0, TwoPi - r))

\* Math.cos(a) = Math.sin(a + pi/2)
Cos(a) == Sin(a + 1571)

\* Math.pow(x, e) for x in [0, 1] (thousandths): linear interpolation between
\* the values of x^e at x = 0, 0.1, ..., 1
PowTable(knots, x) ==
    LET k == x \div 100
        lo == knots[k + 1]
        hi == knots[IF k >= 10 THEN 11 ELSE k + 2]
    IN  lo + ((hi - lo) * (x - 100 * k)) \div 100

Pow110(x) == PowTable(<<0, 79, 170, 266, 365, 467, 570, 675, 782, 891, 1000>>, x)

Pow140(x) == PowTable(<<0, 40, 105, 185, 277, 379, 489, 607, 732, 863, 1000>>, x)

Pow035(x) == PowTable(<<0, 447, 569, 656, 726, 785, 836, 883, 925, 964, 1000>>, x)

\* integer square root: the largest r with r * r <= n
RECURSIVE SqrtIter(_, _, _)
SqrtIter(n, lo, hi) ==
    IF lo >= hi THEN lo
    ELSE LET mid == (lo + hi + 1) \div 2
         IN  IF mid * mid <= n THEN SqrtIter(n, mid, hi) ELSE SqrtIter(n, lo, mid - 1)

Sqrt(n) == SqrtIter(n, 0, 46340)

---------------------------------------------------------------------------
(* THEMES and CONFIG                                                       *)

THEMES ==
    [classic  |-> [needle |-> "05331a", glow |-> "77cc99",
                   ornaments |-> <<"ffd700", "ff3333", "ffffff", "ffbbbb">>],
     gold     |-> [needle |-> "5a4a15", glow |-> "ffd700",
                   ornaments |-> <<"ffffff", "ffe082", "ffb74d", "ffffff">>],
     crimson  |-> [needle |-> "3d0000", glow |-> "ff4d4d",
                   ornaments |-> <<"ffffff", "ffd700", "ff9999", "ffbbbb">>],
     midnight |-> [needle |-> "001533", glow |-> "4dd2ff",
                   ornaments |-> <<"ffffff", "90caf9", "b3e5fc", "81d4fa">>],
     snow     |-> [needle |-> "e0e0e0", glow |-> "b3e5fc",
                   ornaments |-> <<"4dd2ff", "ffffff", "90caf9", "ffd700">>],
     rose     |-> [needle |-> "4a1020", glow |-> "ffaabb",
                   ornaments |-> <<"ffffff", "ffd700", "f48fb1", "ec407a">>],
     amethyst |-> [needle |-> "1a0a33", glow |-> "ba68c8",
                   ornaments |-> <<"ffffff", "9575cd", "7b1fa2", "e1bee7">>],
     emerald  |-> [needle |-> "002a1a", glow |-> "00e676",
                   ornaments |-> <<"ffffff", "81c784", "4caf50", "ffd700">>],
     cyber    |-> [needle |-> "050505", glow |-> "00e5ff",
                   ornaments |-> <<"ff00ff", "00e5ff", "76ff03", "ffffff">>],
     sepia    |-> [needle |-> "3e2723", glow |-> "ffb300",
                   ornaments |-> <<"d4af37", "8d6e63", "fff8e1", "a1887f">>]]

ThemeName == DOMAIN THEMES

MeteorCount == 6

TreeHeight == 95000

TreeRadius == 52000

Tiers == 30

CONFIG ==
    [treeParticleCount |-> ParticleCount, meteorCount |-> MeteorCount,
     treeHeight |-> TreeHeight, treeRadius |-> TreeRadius, tiers |-> Tiers]

Mode == {"TREE", "SCATTER"}

Particles == 0 .. (config.treeParticleCount - 1)


---------------------------------------------------------------------------
(* Math.random(): the draws a call consumes, each in 0..999                *)

\* the values a single draw is explored at: 0, the middle, just below 1
DrawValues == {0, 500, 999}

\* Math.random() returns a double, far finer than a Float32Array holds.  The
\* draws of branchAngle and distFromCenter, which are stored as drawn (up to
\* the factor 2 * pi), are in hundred-thousandths (0 .. 99999), so that the
\* rounding of the store is part of the model; Fine of them make a thousandth
Fine == 100

\* the draws of one iteration of the loop of initTreeParticles, in the order
\* the code consumes them; light is the draw of offsetHSL, pick the draw of
\* the ornament index (one of the two is consumed, after r)
ParticleDraw(u) ==
    [px |-> u, py |-> u, pz |-> u, branch |-> u, tier |-> u, angle |-> u * Fine,
     dist |-> u * Fine, jx |-> u, jy |-> u, jz |-> u, r |-> u, light |-> u,
     pick |-> u]

\* the draw vectors the particles are created from: every draw 0, every draw
\* 0.5, every draw 0.999, a needle particle at the tip of a branch of the
\* lowest tier whose angle and distance draws are within half a stored unit
\* of 1, and a branch particle of the lowest tier
ParticleDraws ==
    { ParticleDraw(u) : u \in DrawValues } \cup
    { [ParticleDraw(999) EXCEPT !.dist = 99999, !.angle = 99999, !.jy = 0, !.r = 0],
      [ParticleDraw(999) EXCEPT !.branch = 0, !.angle = 250 * Fine] }

\* the draws of one iteration of the loop of updateTreeColors
ColorDraws == { [r |-> 0, light |-> 999, pick |-> 0],
                [r |-> 999, light |-> 0, pick |-> 999] }

---------------------------------------------------------------------------
(* Particle generation and colouring                                       *)

\* THREE.Color after setHex(hex), then multiplyScalar(mul) or
\* offsetHSL(0, 0, dl): the hex it was set from, the scaling (thousandths)
\* and the lightness offset applied to it (millionths, exact)
Color(hex, mul, dl) == [hex |-> hex, mul |-> mul, dl |-> dl]

\* the colour rule shared by initTreeParticles and updateTreeColors
ParticleColor(theme, isBranch, d) ==
    IF isBranch
    THEN Color(theme.glow, 1020, 0)
    ELSE IF d.r < 850
         THEN Color(theme.needle, 1000, (d.light - 500) * 50)
         ELSE Color(theme.ornaments[((d.pick * Len(theme.ornaments)) \div 1000) + 1],
                    900, 0)

\* one iteration of the loop of initTreeParticles, for draws d
GenPosition(d) ==
    [x |-> (d.px - 500) * 400, y |-> (d.py - 500) * 400, z |-> (d.pz - 500) * 400]

GenIsBranch(d) == d.branch < 300

\* the tier rounded to the nearest integer instead of floored
GenTierRounded(d, tiers) == RoundDiv(Pow035(d.tier) * tiers, 1000)

\* Math.floor(Math.pow(Math.random(), 0.35) * CONFIG.tiers)
GenTier(d, tiers) == (Pow035(d.tier) * tiers) \div 1000

\* (Math.random() * branchesPerTier) * (Math.PI * 2 / branchesPerTier), as the
\* Float32Array holds it
GenBranchAngle(d, tiers) ==
    LET branchesPerTier == 8 + GenTier(d, tiers)
    IN  MulDiv(d.angle * branchesPerTier, TwoPi, branchesPerTier * 1000 * Fine)

\* the descriptor of a particle as treeBranchParams (a Float32Array) holds it
GenBranchParams(d, tiers) ==
    [distFromCenter |-> RoundDiv(d.dist, Fine),
     tier           |-> GenTier(d, tiers),
     branchAngle    |-> GenBranchAngle(d, tiers),
     isBranch       |-> IF GenIsBranch(d) THEN 1 ELSE 0]

GenJitter(d) ==
    LET jitterScale == IF GenIsBranch(d) THEN 300 ELSE 3000
    IN  [x |-> Scale(d.jx - 500, jitterScale, 1000),
         y |-> Scale(d.jy - 500, jitterScale, 1000),
         z |-> Scale(d.jz - 500, jitterScale, 1000)]

---------------------------------------------------------------------------
(* Pointer handlers                                                        *)

\* the click/drag threshold of onPointerUp, in pixels
ClickDist == 5

\* positions of the pointer events explored (clientX, clientY)
PointerPoints == { <<0, 0>>, <<3, 4>>, <<5, 0>> }

\* tagName of the element a pointer-down lands on
TagNames == { "CANVAS", "SELECT", "BUTTON", "OPTION" }

\* the threshold taken as inclusive
IsClickInclusive(dx, dy) == Sqrt(dx * dx + dy * dy) <= ClickDist

\* Math.sqrt(dx^2 + dy^2) < ClickDist, for whole-pixel dx, dy: the square
\* root of an integer is below 5 exactly when its integer part is
IsClick(dx, dy) == Sqrt(dx * dx + dy * dy) < ClickDist

\* the cycle without the wrap-around: the last mode is kept
NextModeNoWrap(m) == IF m = "TREE" THEN "SCATTER" ELSE m

\* modes[(modes.indexOf(mode) + 1) % modes.length]
NextMode(m) ==
    LET modes == <<"TREE", "SCATTER">>
        index == IF m = modes[1] THEN 0 ELSE IF m = modes[2] THEN 1 ELSE -1
    IN  modes[((index + 1) % Len(modes)) + 1]

\* whether onPointerDown accepts a pointer-down on an element with this tag
AcceptsDown(tag) == tag \notin { "SELECT", "BUTTON", "OPTION" }

onPointerDown(x, y, tag) ==
    /\ handled.pointer < limits.pointer
    /\ handled' = [handled EXCEPT !.pointer = @ + 1]
    /\ IF AcceptsDown(tag)
       THEN /\ state' = [state EXCEPT !.isPointerDown = TRUE,
                                      !.clickStartPos = [x |-> x, y |-> y],
                                      !.pointerX = x,
                                      !.pointerY = y]
            /\ gesture' = [rejected |-> FALSE, down |-> [x |-> x, y |-> y],
                           moves |-> 0, far |-> FALSE,
                           rotX |-> state.manualRotX, rotY |-> state.manualRotY]
       ELSE /\ state' = state
            /\ gesture' = [gesture EXCEPT !.rejected = TRUE]
    /\ UNCHANGED <<probe, config, treeBranchParams, treeJitters, positions, colors,
                   meteors, mainGroupRot, galaxyFloor, heart, time, frames,
                   limits, handLandmarker, video, cv, lastDetect, camera,
                   themeSelector, uncaught, lastUp, clickLog>>

\* the rotation of a drag without the factor 0.005
RotDeltaUnscaled(d) == d * 1000

\* manualRotY += dx * 0.005, in thousandths of a radian
RotDelta(d) == d * 5

\* a pointer-move that does not record the position of the event
onPointerMoveFromDown(x, y) ==
    /\ handled.pointer < limits.pointer
    /\ handled' = [handled EXCEPT !.pointer = @ + 1]
    /\ IF state.isPointerDown
       THEN LET dx == x - state.pointerX
                dy == y - state.pointerY
            IN  /\ state' = [state EXCEPT !.manualRotY = @ + RotDelta(dx),
                                          !.manualRotX = @ + RotDelta(dy)]
                /\ gesture' = [gesture EXCEPT
                                 !.rejected = FALSE,
                                 !.moves = @ + 1,
                                 !.far = @ \/ ~IsClick(x - gesture.down.x,
                                                       y - gesture.down.y)]
       ELSE /\ state' = state
            /\ gesture' = [gesture EXCEPT !.rejected = FALSE]
    /\ UNCHANGED <<probe, config, treeBranchParams, treeJitters, positions, colors,
                   meteors, mainGroupRot, galaxyFloor, heart, time, frames,
                   limits, handLandmarker, video, cv, lastDetect, camera,
                   themeSelector, uncaught, lastUp, clickLog>>

onPointerMove(x, y) ==
    /\ handled.pointer < limits.pointer
    /\ handled' = [handled EXCEPT !.pointer = @ + 1]
    /\ IF state.isPointerDown
       THEN LET dx == x - state.pointerX
                dy == y - state.pointerY
            IN  /\ state' = [state EXCEPT !.manualRotY = @ + RotDelta(dx),
                                          !.manualRotX = @ + RotDelta(dy),
                                          !.pointerX = x,
                                          !.pointerY = y]
                /\ gesture' = [gesture EXCEPT
                                 !.rejected = FALSE,
                                 !.moves = @ + 1,
                                 !.far = @ \/ ~IsClick(x - gesture.down.x,
                                                       y - gesture.down.y)]
       ELSE /\ state' = state
            /\ gesture' = [gesture EXCEPT !.rejected = FALSE]
    /\ UNCHANGED <<probe, config, treeBranchParams, treeJitters, positions, colors,
                   meteors, mainGroupRot, galaxyFloor, heart, time, frames,
                   limits, handLandmarker, video, cv, lastDetect, camera,
                   themeSelector, uncaught, lastUp, clickLog>>

\* a pointer-up that measures the distance from the last recorded pointer
\* position instead of the position of the pointer-down
onPointerUpFromLastMove(x, y) ==
    /\ handled.pointer < limits.pointer
    /\ handled' = [handled EXCEPT !.pointer = @ + 1]
    /\ IF state.isPointerDown
       THEN LET dx == x - state.pointerX
                dy == y - state.pointerY
                click == IsClick(dx, dy)
            IN  /\ state' = [state EXCEPT !.isPointerDown = FALSE,
                                          !.mode = IF click THEN NextMode(@) ELSE @]
                /\ lastUp' = [held |-> TRUE, dx |-> dx, dy |-> dy,
                              before |-> state.mode, x |-> x, y |-> y,
                              moves |-> gesture.moves, far |-> gesture.far]
                /\ clickLog' = IF click
                               THEN IF Len(clickLog) < 2
                                    THEN Append(clickLog, state.mode)
                                    ELSE <<clickLog[2], state.mode>>
                               ELSE clickLog
       ELSE UNCHANGED <<state, lastUp, clickLog>>
    /\ gesture' = [gesture EXCEPT !.rejected = FALSE]
    /\ UNCHANGED <<probe, config, treeBranchParams, treeJitters, positions, colors,
                   meteors, mainGroupRot, galaxyFloor, heart, time, frames,
                   limits, handLandmarker, video, cv, lastDetect, camera,
                   themeSelector, uncaught>>

onPointerUp(x, y) ==
    /\ handled.pointer < limits.pointer
    /\ handled' = [handled EXCEPT !.pointer = @ + 1]
    /\ IF state.isPointerDown
       THEN LET dx == x - state.clickStartPos.x
                dy == y - state.clickStartPos.y
                click == IsClick(dx, dy)
            IN  /\ state' = [state EXCEPT !.isPointerDown = FALSE,
                                          !.mode = IF click THEN NextMode(@) ELSE @]
                /\ lastUp' = [held |-> TRUE, dx |-> dx, dy |-> dy,
                              before |-> state.mode, x |-> x, y |-> y,
                              moves |-> gesture.moves, far |-> gesture.far]
                /\ clickLog' = IF click
                               THEN IF Len(clickLog) < 2
                                    THEN Append(clickLog, state.mode)
                                    ELSE <<clickLog[2], state.mode>>
                               ELSE clickLog
       ELSE UNCHANGED <<state, lastUp, clickLog>>
    /\ gesture' = [gesture EXCEPT !.rejected = FALSE]
    /\ UNCHANGED <<probe, config, treeBranchParams, treeJitters, positions, colors,
                   meteors, mainGroupRot, galaxyFloor, heart, time, frames,
                   limits, handLandmarker, video, cv, lastDetect, camera,
                   themeSelector, uncaught>>

---------------------------------------------------------------------------
(* Theme selector and resize                                               *)

\* values the theme selector is changed to; "neon" is no key of THEMES
SelectValues == { "gold", "neon" }

\* a recolouring that skips the particles that are not branch particles
updateTreeColorsBranchOnly(themeName, draws) ==
    IF themeName \in ThemeName
    THEN [i \in Particles |->
            IF treeBranchParams[i].isBranch = 1
            THEN ParticleColor(THEMES[themeName], TRUE, draws[i])
            ELSE colors[i]]
    ELSE colors

\* updateTreeColors: the colour buffer it leaves, for the draws of each
\* iteration.  THEMES[state.theme] is undefined for a value that is no key of
\* THEMES, and the first iteration then throws a TypeError on theme.glow or
\* theme.needle, before it has written a colour
updateTreeColors(themeName, draws) ==
    IF themeName \in ThemeName
    THEN [i \in Particles |->
            ParticleColor(THEMES[themeName], treeBranchParams[i].isBranch = 1, draws[i])]
    ELSE colors

\* whether updateTreeColors throws for this theme
ColorsThrow(themeName) == themeName \notin ThemeName /\ Particles # {}

\* the theme the change handler stores: (e.target).value as ThemeName,
\* a cast without a check
StoredTheme(value) == value

\* a theme change that runs initTreeParticles instead of updateTreeColors
onThemeChangeReinit(value) ==
    \E draws \in [Particles -> ColorDraws] :
        /\ handled.theme < limits.theme
        /\ handled' = [handled EXCEPT !.theme = @ + 1]
        /\ themeSelector' = value
        /\ state' = [state EXCEPT !.theme = StoredTheme(value)]
        /\ colors' = updateTreeColors(StoredTheme(value), draws)
        /\ positions' = [i \in Particles |-> GenPosition(ParticleDraw(draws[i].r))]
        /\ uncaught' = IF ColorsThrow(StoredTheme(value)) THEN "TypeError" ELSE uncaught
        /\ UNCHANGED <<probe, gesture, config, treeBranchParams, treeJitters,
                       meteors, mainGroupRot, galaxyFloor, heart, time, frames,
                       limits, handLandmarker, video, cv, lastDetect, camera,
                       lastUp, clickLog>>

\* the 'change' listener of the theme selector
onThemeChange(value) ==
    \E draws \in [Particles -> ColorDraws] :
        /\ handled.theme < limits.theme
        /\ handled' = [handled EXCEPT !.theme = @ + 1]
        /\ themeSelector' = value
        /\ state' = [state EXCEPT !.theme = StoredTheme(value)]
        /\ colors' = updateTreeColors(StoredTheme(value), draws)
        /\ uncaught' = IF ColorsThrow(StoredTheme(value)) THEN "TypeError" ELSE uncaught
        /\ UNCHANGED <<probe, gesture, config, treeBranchParams, treeJitters, positions,
                       meteors, mainGroupRot, galaxyFloor, heart, time, frames,
                       limits, handLandmarker, video, cv, lastDetect, camera,
                       lastUp, clickLog>>

\* window sizes explored (innerWidth, innerHeight)
Viewports == { <<800, 600>>, <<1920, 1080>> }

\* camera.aspect and the size given to the renderer and the composer
Projection(w, h) == [aspect |-> RoundDiv(w * 1000, h), width |-> w, height |-> h]

\* a resize that builds the particle buffers anew
onResizeRebuilding(w, h) ==
    /\ handled.resize < limits.resize
    /\ handled' = [handled EXCEPT !.resize = @ + 1]
    /\ camera' = Projection(w, h)
    /\ treeJitters' = [i \in Particles |-> GenJitter(ParticleDraw(999))]
    /\ UNCHANGED <<probe, gesture, config, state, treeBranchParams, positions,
                   colors, meteors, mainGroupRot, galaxyFloor, heart, time,
                   frames, limits, handLandmarker, video, cv, lastDetect,
                   themeSelector, uncaught, lastUp, clickLog>>

onResize(w, h) ==
    /\ handled.resize < limits.resize
    /\ handled' = [handled EXCEPT !.resize = @ + 1]
    /\ camera' = Projection(w, h)
    /\ UNCHANGED <<probe, gesture, config, state, treeBranchParams, treeJitters, positions,
                   colors, meteors, mainGroupRot, galaxyFloor, heart, time,
                   frames, limits, handLandmarker, video, cv, lastDetect,
                   themeSelector, uncaught, lastUp, clickLog>>

---------------------------------------------------------------------------
(* initCV: the asynchronous start of hand tracking                         *)

\* this.video before initCV binds it, and when the page has no #webcam
NullVideo == [el |-> "null", srcObject |-> "null", readyState |-> 0]

\* hideLoader: the loader element gets the class ui-hidden
hideLoader(c) == [c EXCEPT !.loader = "hidden"]

\* FilesetResolver.forVisionTasks settles: the function goes on to create the
\* landmarker, or the catch block hides the loader
cvResolved(ok) ==
    /\ cv.pc = "resolving"
    /\ cv' = IF ok THEN [cv EXCEPT !.pc = "creating"]
                   ELSE [hideLoader(cv) EXCEPT !.pc = "done"]
    /\ UNCHANGED <<probe, gesture, config, state, treeBranchParams, treeJitters, positions,
                   colors, meteors, mainGroupRot, galaxyFloor, heart, time,
                   frames, handled, limits, handLandmarker, video, lastDetect,
                   camera, themeSelector, uncaught, lastUp, clickLog>>

\* HandLandmarker.createFromOptions settles: the landmarker is stored, the
\* webcam element is looked up (null when the page has none) and the camera
\* stream is requested; or the catch block hides the loader
cvCreated(ok) ==
    /\ cv.pc = "creating"
    /\ IF ok
       THEN /\ handLandmarker' = "landmarker"
            /\ video' = IF cv.webcam
                        THEN [el |-> "webcam", srcObject |-> "null", readyState |-> 0]
                        ELSE NullVideo
            /\ cv' = [cv EXCEPT !.pc = "media"]
       ELSE /\ cv' = [hideLoader(cv) EXCEPT !.pc = "done"]
            /\ UNCHANGED <<handLandmarker, video>>
    /\ UNCHANGED <<probe, gesture, config, state, treeBranchParams, treeJitters, positions,
                   colors, meteors, mainGroupRot, galaxyFloor, heart, time,
                   frames, handled, limits, lastDetect, camera, themeSelector,
                   uncaught, lastUp, clickLog>>

\* outcomes of getUserMedia: a stream, a rejection (caught, giving null), or
\* an exception thrown by the call itself (caught by the try block)
MediaOutcomes == { "stream", "null", "throws" }

\* getUserMedia settles
cvMedia(outcome) ==
    /\ cv.pc = "media"
    /\ IF outcome = "stream" /\ video.el # "null"
       THEN /\ video' = [video EXCEPT !.srcObject = "stream"]
            /\ cv' = [cv EXCEPT !.pc = "done", !.listening = TRUE]
       ELSE /\ cv' = [hideLoader(cv) EXCEPT !.pc = "done"]
            /\ UNCHANGED video
    /\ UNCHANGED <<probe, gesture, config, state, treeBranchParams, treeJitters, positions,
                   colors, meteors, mainGroupRot, galaxyFloor, heart, time,
                   frames, handled, limits, handLandmarker, lastDetect, camera,
                   themeSelector, uncaught, lastUp, clickLog>>

\* HTMLMediaElement.HAVE_CURRENT_DATA, the readyState update() asks for
HaveCurrentData == 2

\* the video element has its first frame ('loadeddata'): the listener added
\* by initCV hides the loader
onLoadedData ==
    /\ video.el # "null"
    /\ video.srcObject = "stream"
    /\ video.readyState < HaveCurrentData
    /\ video' = [video EXCEPT !.readyState = HaveCurrentData]
    /\ cv' = IF cv.listening THEN hideLoader(cv) ELSE cv
    /\ UNCHANGED <<probe, gesture, config, state, treeBranchParams, treeJitters, positions,
                   colors, meteors, mainGroupRot, galaxyFloor, heart, time,
                   frames, handled, limits, handLandmarker, lastDetect, camera,
                   themeSelector, uncaught, lastUp, clickLog>>

---------------------------------------------------------------------------
(* Meteor                                                                  *)

\* the draws of one Meteor.reset(), in the order the code consumes them
MeteorDraw(z, x, y, speed, spread, vz, scale) ==
    [z |-> z, x |-> x, y |-> y, speed |-> speed, spread |-> spread,
     vz |-> vz, scale |-> scale]

\* the draw vectors explored: a slow meteor spawned far away; the fastest,
\* steepest one spawned lowest (first to fall below the lower bound); the
\* fastest, flattest one spawned nearest and highest (leaves to the right)
MeteorDraws ==
    { MeteorDraw(0, 0, 0, 0, 0, 0, 0),
      MeteorDraw(500, 999, 0, 999, 0, 500, 500),
      MeteorDraw(999, 0, 999, 999, 999, 999, 999) }

\* the bounds of Meteor.update
MeteorMinY == -1200000

MeteorMaxX == 3500000

\* Vector3.set(x, y, z).normalize().multiplyScalar(speed)
WithLength(v, speed) ==
    LET len == Sqrt(v.x * v.x + v.y * v.y + v.z * v.z)
    IN  [x |-> RoundDiv(v.x * speed, len),
         y |-> RoundDiv(v.y * speed, len),
         z |-> RoundDiv(v.z * speed, len)]

\* position of a meteor that Meteor.reset() has placed
ResetPosition(d) ==
    LET zBias == (d.z * d.z) \div 1000
        startZ == -3000000 + zBias * 2700
        frustumWidth == (Abs(startZ) * 16) \div 10
        startX == (0 - frustumWidth \div 2) - (frustumWidth \div 2000) * d.x
        startY == 800000 + d.y * 800
    IN  [x |-> startX, y |-> startY, z |-> startZ]

\* a velocity without a vertical component
ResetVelocityLevel(d) ==
    LET speed == 3500 + Scale(d.speed, 5500, 1000)
    IN  WithLength([x |-> 1400, y |-> 0, z |-> (d.vz - 500) \div 5], speed)

\* velocity Meteor.reset() gives
ResetVelocity(d) ==
    LET speed == 3500 + Scale(d.speed, 5500, 1000)
        spread == (d.spread - 500) \div 10
    IN  WithLength([x |-> 1400, y |-> -1000 + spread, z |-> (d.vz - 500) \div 5], speed)

\* mesh.scale Meteor.reset() gives
ResetScale(d) ==
    LET zBias == (d.z * d.z) \div 1000
        perspectiveCompensation == 1000 + (1000 - zBias) * 2
    IN  Scale(perspectiveCompensation, 800 + Scale(d.scale, 1500, 1000), 1000)

\* Meteor.reset(): the same mesh with a new position, velocity and scale
MeteorReset(m, d) ==
    [m EXCEPT !.position = ResetPosition(d),
              !.velocity = ResetVelocity(d),
              !.scale = ResetScale(d),
              !.justReset = TRUE]

\* new Meteor(): a mesh of its own, then reset()
NewMeteor(id, d) ==
    MeteorReset([mesh |-> id, position |-> [x |-> 0, y |-> 0, z |-> 0],
                 velocity |-> [x |-> 0, y |-> 0, z |-> 0], scale |-> 1000,
                 justReset |-> FALSE], d)

\* the test without the right-hand bound
OutOfBoundsBelowOnly(p) == p.y < MeteorMinY

\* the test of Meteor.update for leaving the sky
OutOfBounds(p) == p.y < MeteorMinY \/ p.x > MeteorMaxX

\* Meteor.update(): mesh.position.add(velocity), then reset() when the meteor
\* has left; d are the draws the reset would consume
MeteorUpdate(m, d) ==
    LET moved == [x |-> m.position.x + m.velocity.x,
                  y |-> m.position.y + m.velocity.y,
                  z |-> m.position.z + m.velocity.z]
    IN  IF OutOfBounds(moved)
        THEN MeteorReset(m, d)
        ELSE [m EXCEPT !.position = moved, !.justReset = FALSE]

\* whether this update() of the meteor calls reset()
Leaves(m) ==
    OutOfBounds([x |-> m.position.x + m.velocity.x,
                 y |-> m.position.y + m.velocity.y,
                 z |-> m.position.z + m.velocity.z])

\* the loop of initMeteors: meteorCount meteors, pushed in order
initMeteors(n, draws) == [k \in 1 .. n |-> NewMeteor(k, draws[k])]

\* a pool that destroys the meteors that leave instead of resetting them
UpdateMeteorsDropping(pool, draws) ==
    [k \in { j \in DOMAIN pool : ~Leaves(pool[j]) } |-> MeteorUpdate(pool[k], draws[k])]

\* this.meteors.forEach(m => m.update())
UpdateMeteors(pool, draws) == [k \in DOMAIN pool |-> MeteorUpdate(pool[k], draws[k])]

---------------------------------------------------------------------------
(* update(): one frame                                                     *)

\* milliseconds between two reads of clock.getElapsedTime()
FrameDt == 16

\* results.landmarks of detectForVideo: no hand, or landmark 9 of the first
\* hand at normalized (x, y)
DetectResults ==
    { [found |-> FALSE, x |-> 0, y |-> 0],
      [found |-> TRUE, x |-> 250, y |-> 1000] }

\* the condition without the tests of the video element
DetectorRunsUnchecked == handLandmarker # "null"

\* the condition under which update() calls detectForVideo
DetectorRuns == /\ handLandmarker # "null"
                /\ video.el # "null"
                /\ video.readyState >= HaveCurrentData

\* state.handX, state.handY after the detection block of update()
HandAfter(det) ==
    IF DetectorRuns /\ det.found
    THEN [x |-> (det.x - 500) * 2, y |-> (det.y - 500) * 2]
    ELSE [x |-> state.handX, y |-> state.handY]

\* the interpolation carried on past y by the whole distance from x to y
MathLerpPastTarget(x, y, t) == RoundDiv((1000 - t) * x + t * y, 1000) + (y - x)

\* THREE.MathUtils.lerp(x, y, t) = (1 - t) * x + t * y
MathLerp(x, y, t) == RoundDiv((1000 - t) * x + t * y, 1000)

\* the step with the difference taken the wrong way round
EaseAway(v, target, factor) ==
    IF v = NaN \/ target = NaN THEN NaN ELSE v + Scale(v - target, factor, 1000)

\* v += (target - v) * factor
Ease(v, target, factor) ==
    IF v = NaN \/ target = NaN THEN NaN ELSE v + Scale(target - v, factor, 1000)

\* smoothing factors of update()
GroupEase == 50

FloorEase == 50

\* the heart eased like the floor
HeartEaseAsFloor == FloorEase

HeartEase == 100

ParticleEase == 60

\* lowest height of a TREE target
FloorLimit == -51800

\* targetFloorY
TargetFloorY(m) == IF m = "TREE" THEN -52000 ELSE -140000

\* target of heart.scale
TargetHeartScale(m, t) ==
    LET heartVisible == IF m = "TREE" THEN 1 ELSE 0
    IN  heartVisible * (1000 + Scale(Sin((t * 25) \div 10), 60, 1000))

\* tierIndex / CONFIG.tiers; 0/0 when tiers is 0 (tier is then always 0)
TierT(tierIndex) ==
    IF config.tiers = 0 THEN NaN ELSE RoundDiv(tierIndex * 1000, config.tiers)

\* the TREE branch of the particle loop
TreeTarget(i, t) ==
    LET distAlongBranch == treeBranchParams[i].distFromCenter
        tierIndex == treeBranchParams[i].tier
        branchAngle == treeBranchParams[i].branchAngle
        isBranch == treeBranchParams[i].isBranch = 1
        tierT == TierT(tierIndex)
    IN  IF tierT = NaN
        THEN [x |-> NaN, y |-> NaN, z |-> NaN]
        ELSE
        LET tierHeight == Scale(1000 - tierT, config.treeHeight, 1000)
                          - config.treeHeight \div 2 + 12000
            tierRadiusMax == Scale(Pow110(tierT), config.treeRadius, 1000)
            subAngleScale == IF isBranch THEN 200 ELSE 2500
            actualAngle == branchAngle
                           + Scale(Scale(Sin(i * 10), subAngleScale, 1000),
                                   1000 - distAlongBranch, 1000)
            droop == Pow140(distAlongBranch) * 7
            sway == Scale(Sin((t * 4) \div 10 + tierIndex * 600), 150, 1000)
            branchRadius == Scale(distAlongBranch, tierRadiusMax, 1000)
            calculatedTy == tierHeight - droop + treeJitters[i].y
                            + Scale(Sin((t * 8) \div 10 + tierIndex * 1000), 500, 1000)
        IN  [x |-> Scale(Cos(actualAngle + sway), branchRadius, 1000) + treeJitters[i].x,
             y |-> Max(calculatedTy, FloorLimit),
             z |-> Scale(Sin(actualAngle + sway), branchRadius, 1000) + treeJitters[i].z]

\* an orbit displaced by the particle's jitter
ScatterTargetJittered(i, t) ==
    LET n == config.treeParticleCount
        r == 90000 + Scale(Sin((i * 300000) \div n + t), 60000, 1000)
    IN  [x |-> Scale(Cos((i * 4 * Pi) \div n + (t * 4) \div 10), r, 1000)
               + treeJitters[i].x,
         y |-> Scale(Sin((i * 180000) \div n + (t * 2) \div 10), r, 1000)
               + treeJitters[i].y,
         z |-> Scale(Sin((i * 4 * Pi) \div n + (t * 4) \div 10), r, 1000)
               + treeJitters[i].z]

\* the SCATTER branch of the particle loop
ScatterTarget(i, t) ==
    LET n == config.treeParticleCount
        r == 90000 + Scale(Sin((i * 300000) \div n + t), 60000, 1000)
    IN  [x |-> Scale(Cos((i * 4 * Pi) \div n + (t * 4) \div 10), r, 1000),
         y |-> Scale(Sin((i * 180000) \div n + (t * 2) \div 10), r, 1000),
         z |-> Scale(Sin((i * 4 * Pi) \div n + (t * 4) \div 10), r, 1000)]

\* a target halfway between the two fields
TargetBlended(m, i, t) ==
    [x |-> (TreeTarget(i, t).x + ScatterTarget(i, t).x) \div 2,
     y |-> (TreeTarget(i, t).y + ScatterTarget(i, t).y) \div 2,
     z |-> (TreeTarget(i, t).z + ScatterTarget(i, t).z) \div 2]

\* (tx, ty, tz) of particle i
Target(m, i, t) == IF m = "TREE" THEN TreeTarget(i, t) ELSE ScatterTarget(i, t)

\* a step of 194% of the distance: it lands beyond the target
IntegrateOvershooting(p, target) ==
    [x |-> Ease(p.x, target.x, 1940),
     y |-> Ease(p.y, target.y, 1940),
     z |-> Ease(p.z, target.z, 1940)]

\* positions[idx] += (tx - positions[idx]) * 0.06, per coordinate
Integrate(p, target) ==
    [x |-> Ease(p.x, target.x, ParticleEase),
     y |-> Ease(p.y, target.y, ParticleEase),
     z |-> Ease(p.z, target.z, ParticleEase)]

update ==
    /\ frames < limits.frames
    /\ \E det \in DetectResults,
          draws \in [{ k \in DOMAIN meteors : Leaves(meteors[k]) } -> MeteorDraws] :
        LET t == time + FrameDt
            hand == HandAfter(det)
            targetRotY == Scale(hand.x, 350, 1000) + state.manualRotY
            targetRotX == Scale(hand.y, 180, 1000) + state.manualRotX
        IN  \* without a call of the detector there is no result to choose
            /\ DetectorRuns \/ ~det.found
            /\ time' = t
            /\ frames' = frames + 1
            /\ lastDetect' = IF ~DetectorRuns THEN "skipped"
                             ELSE IF det.found THEN "hand" ELSE "nohand"
            /\ state' = [state EXCEPT !.handX = hand.x, !.handY = hand.y]
            /\ mainGroupRot' = [y |-> Ease(mainGroupRot.y, targetRotY, GroupEase),
                                x |-> Ease(mainGroupRot.x, targetRotX, GroupEase)]
            /\ galaxyFloor' = [rotationY |-> galaxyFloor.rotationY + 3,
                               positionY |-> MathLerp(galaxyFloor.positionY,
                                                      TargetFloorY(state.mode), FloorEase)]
            /\ heart' = [scale |-> MathLerp(heart.scale,
                                            TargetHeartScale(state.mode, t), HeartEase),
                         rotationY |-> heart.rotationY + 6,
                         emissiveIntensity |-> 1500 + Scale(Sin(t * 4), 700, 1000)]
            /\ meteors' = UpdateMeteors(meteors, draws)
            /\ positions' = [i \in Particles |->
                               Integrate(positions[i], Target(state.mode, i, t))]
    /\ UNCHANGED <<probe, gesture, config, treeBranchParams, treeJitters, colors, handled, limits,
                   handLandmarker, video, cv, camera, themeSelector, uncaught,
                   lastUp, clickLog>>

---------------------------------------------------------------------------
(* Construction and the specification                                      *)

\* new HolidayApp(): the state the constructor leaves, for a CONFIG, the
\* draws of initTreeParticles (pd) and of the meteors' first reset (md), the
\* window size, the page (with or without a #webcam element) and the number
\* of frames to explore
Construct(cfg, pd, md, vp, webcam, limit) ==
    /\ config = cfg
    /\ state = [mode |-> "TREE", theme |-> "classic", handX |-> 0, handY |-> 0,
                isPointerDown |-> FALSE, pointerX |-> 0, pointerY |-> 0,
                manualRotX |-> 0, manualRotY |-> 0,
                clickStartPos |-> [x |-> 0, y |-> 0]]
    /\ treeBranchParams = [i \in DOMAIN pd |-> GenBranchParams(pd[i], cfg.tiers)]
    /\ treeJitters = [i \in DOMAIN pd |-> GenJitter(pd[i])]
    /\ positions = [i \in DOMAIN pd |-> GenPosition(pd[i])]
    /\ colors = [i \in DOMAIN pd |->
                   ParticleColor(THEMES["classic"], GenIsBranch(pd[i]), pd[i])]
    /\ meteors = initMeteors(cfg.meteorCount, md)
    /\ mainGroupRot = [x |-> 0, y |-> 0]
    /\ galaxyFloor = [rotationY |-> 0, positionY |-> -52000]
    /\ heart = [scale |-> 1000, rotationY |-> 0, emissiveIntensity |-> 1500]
    /\ time = 0
    /\ frames = 0
    /\ handled = [pointer |-> 0, theme |-> 0, resize |-> 0]
    /\ limits = limit
    /\ handLandmarker = "null"
    /\ video = NullVideo
    /\ cv = [pc |-> "resolving", webcam |-> webcam, loader |-> "shown",
             listening |-> FALSE]
    /\ lastDetect = "skipped"
    /\ camera = Projection(vp[1], vp[2])
    /\ themeSelector = "classic"
    /\ uncaught = "none"
    /\ lastUp = [held |-> FALSE, dx |-> 0, dy |-> 0, before |-> "TREE",
                 x |-> 0, y |-> 0, moves |-> 0, far |-> FALSE]
    /\ clickLog = <<>>
    /\ gesture = [rejected |-> FALSE, down |-> [x |-> 0, y |-> 0], moves |-> 0,
                  far |-> FALSE, rotX |-> 0, rotY |-> 0]

\* the horizon of the full specification
Limits ==
    [frames |-> MaxFrames, pointer |-> MaxPointerEvents,
     theme |-> MaxThemeChanges, resize |-> MaxResizes]

\* particle i is created from the i-th of these draw vectors (cyclically)
DrawCycle == <<ParticleDraw(0), [ParticleDraw(999) EXCEPT !.r = 0], ParticleDraw(500)>>

\* meteor k is first reset with the k-th of these draw vectors (cyclically)
MeteorCycle == <<MeteorDraw(0, 0, 0, 0, 0, 0, 0),
                 MeteorDraw(500, 999, 0, 999, 0, 500, 500),
                 MeteorDraw(999, 0, 999, 999, 999, 999, 999)>>

Origin == [x |-> 0, y |-> 0, z |-> 0]

\* no position is being integrated toward a constant target
NoProbe == [steps |-> 0, start |-> Origin, target |-> Origin, previous |-> Origin,
            position |-> Origin]

\* the application constructed with configuration cfg in a page with or
\* without a #webcam element
ConstructedWith(cfg, webcam, limit) ==
    /\ Construct(cfg,
                 [i \in 0 .. cfg.treeParticleCount - 1 |->
                    DrawCycle[(i % Len(DrawCycle)) + 1]],
                 [k \in 1 .. cfg.meteorCount |-> MeteorCycle[(k % Len(MeteorCycle)) + 1]],
                 <<800, 600>>, webcam, limit)
    /\ probe = NoProbe

\* the application constructed with CONFIG in a page with a #webcam element
Constructed(limit) == ConstructedWith(CONFIG, TRUE, limit)

Init == Constructed(Limits)

PointerDown == \E p \in PointerPoints, tag \in TagNames : onPointerDown(p[1], p[2], tag)

PointerMove == \E p \in PointerPoints : onPointerMove(p[1], p[2])

PointerUp == \E p \in PointerPoints : onPointerUp(p[1], p[2])

ThemeChange == \E v \in SelectValues : onThemeChange(v)

Resize == \E vp \in Viewports : onResize(vp[1], vp[2])

InitCV == \/ \E ok \in BOOLEAN : cvResolved(ok)
          \/ \E ok \in BOOLEAN : cvCreated(ok)
          \/ \E outcome \in MediaOutcomes : cvMedia(outcome)
          \/ onLoadedData

Next == \/ update
        \/ PointerDown
        \/ PointerMove
        \/ PointerUp
        \/ ThemeChange
        \/ Resize
        \/ InitCV

Spec == Init /\ [][Next]_vars

---------------------------------------------------------------------------
(* Gestures: frames and pointer events only, over a longer run             *)

\* pointer events explored in the specification of gestures
MaxGestureEvents == 5

GestureLimits ==
    [frames |-> MaxFrames, pointer |-> MaxGestureEvents, theme |-> 0, resize |-> 0]

InitGesture == Constructed(GestureLimits)

NextGesture == update \/ PointerDown \/ PointerMove \/ PointerUp

SpecGesture == InitGesture /\ [][NextGesture]_vars

---------------------------------------------------------------------------
(* The meteor pool: frames only, long enough for meteors to leave the sky  *)

\* update() calls explored in the specification of the meteor pool
MeteorFrames == 520

MeteorLimits == [frames |-> MeteorFrames, pointer |-> 0, theme |-> 0, resize |-> 0]

InitMeteor == Constructed(MeteorLimits)

NextMeteor == update

SpecMeteor == InitMeteor /\ [][NextMeteor]_vars

---------------------------------------------------------------------------
(* The meteor pool while frames keep running: animate() asks for the next  *)
(* frame in every call, so an enabled update() is eventually taken          *)

\* update() calls explored in the fair specification of the meteor pool
FlightFrames == 520

FlightLimits == [frames |-> FlightFrames, pointer |-> 0, theme |-> 0, resize |-> 0]

InitFlight == Constructed(FlightLimits)

NextFlight == update

SpecFlight == InitFlight /\ [][NextFlight]_vars /\ WF_vars(NextFlight)

---------------------------------------------------------------------------
(* Hand tracking: the steps of initCV interleaved with frames              *)

\* update() calls explored in the specification of hand tracking
MaxCvFrames == 6

CvLimits == [frames |-> MaxCvFrames, pointer |-> 0, theme |-> 0, resize |-> 0]

InitCvRun == \E webcam \in BOOLEAN : ConstructedWith(CONFIG, webcam, CvLimits)

NextCv == update \/ InitCV

SpecCv == InitCvRun /\ [][NextCv]_vars

---------------------------------------------------------------------------
(* Construction with a degenerate CONFIG                                   *)

\* CONFIG with no particle, and CONFIG with no tier
DegenerateConfigs ==
    { [CONFIG EXCEPT !.treeParticleCount = 0], [CONFIG EXCEPT !.tiers = 0] }

InitDegenerate == \E cfg \in DegenerateConfigs : ConstructedWith(cfg, TRUE, Limits)

SpecDegenerate == InitDegenerate /\ [][Next]_vars

---------------------------------------------------------------------------
(* The integration step applied again and again with a constant target     *)

\* applications explored
MaxLerpSteps == 75

Vec(x, y, z) == [x |-> x, y |-> y, z |-> z]

\* starting positions, within the cube initTreeParticles draws them from
LerpStarts == { Vec(-12000, 0, 12000), Vec(7, 0, -3), Vec(12000, 12000, 12000),
                Vec(0, 0, 0), Vec(-11950, 5009, 12001) }

\* constant targets
LerpTargets == { Vec(0, 0, 0), Vec(-12000, 5000, 12005) }

InitLerp ==
    /\ Construct(CONFIG,
                 [i \in 0 .. ParticleCount - 1 |-> DrawCycle[(i % Len(DrawCycle)) + 1]],
                 [k \in 1 .. MeteorCount |-> MeteorCycle[(k % Len(MeteorCycle)) + 1]],
                 <<800, 600>>, TRUE,
                 [frames |-> 0, pointer |-> 0, theme |-> 0, resize |-> 0])
    /\ \E p \in LerpStarts, t \in LerpTargets :
          probe = [steps |-> 0, start |-> p, target |-> t, previous |-> p,
                   position |-> p]

\* one more application of the integration step to the probed position
IntegrateProbe ==
    /\ probe.steps < MaxLerpSteps
    /\ probe' = [probe EXCEPT !.steps = @ + 1,
                              !.previous = probe.position,
                              !.position = Integrate(probe.position, probe.target)]
    /\ UNCHANGED <<config, state, treeBranchParams, treeJitters, positions, colors,
                   meteors, mainGroupRot, galaxyFloor, heart, time, frames,
                   handled, limits, handLandmarker, video, cv, lastDetect, camera,
                   themeSelector, uncaught, lastUp, clickLog, gesture>>

SpecLerp == InitLerp /\ [][IntegrateProbe]_vars

---------------------------------------------------------------------------
(* Generation: the particles are created from every combination of the     *)
(* draw vectors, then frames, gestures and a theme change follow           *)

\* update() calls explored after a generation
MaxGenFrames == 2

GenLimits ==
    [frames |-> MaxGenFrames, pointer |-> MaxPointerEvents,
     theme |-> MaxThemeChanges, resize |-> 0]

InitGen ==
    /\ \E pd \in [0 .. ParticleCount - 1 -> ParticleDraws] :
          Construct(CONFIG, pd,
                    [k \in 1 .. MeteorCount |-> MeteorCycle[(k % Len(MeteorCycle)) + 1]],
                    <<800, 600>>, TRUE, GenLimits)
    /\ probe = NoProbe

NextGen == update \/ PointerDown \/ PointerUp \/ ThemeChange

SpecGen == InitGen /\ [][NextGen]_vars

---------------------------------------------------------------------------
(* The TREE field over time: every combination of the draw vectors, then   *)
(* frames only, for more than half a period of the slowest height term     *)

\* update() calls explored in the specification of the TREE field
MaxFieldFrames == 260

FieldLimits == [frames |-> MaxFieldFrames, pointer |-> 0, theme |-> 0, resize |-> 0]

InitField ==
    /\ \E pd \in [0 .. ParticleCount - 1 -> ParticleDraws] :
          Construct(CONFIG, pd,
                    [k \in 1 .. MeteorCount |-> MeteorCycle[(k % Len(MeteorCycle)) + 1]],
                    <<800, 600>>, TRUE, FieldLimits)
    /\ probe = NoProbe

NextField == update

SpecField == InitField /\ [][NextField]_vars

---------------------------------------------------------------------------
(* The floor: frames interleaved with the events of two clicks, over a run *)
(* long enough for the floor to sink and to come back up to its rest       *)

\* update() calls explored in the specification of the floor
MaxFloorFrames == 58

\* pointer events explored in the specification of the floor
MaxFloorEvents == 4

FloorLimits ==
    [frames |-> MaxFloorFrames, pointer |-> MaxFloorEvents, theme |-> 0, resize |-> 0]

InitFloor == Constructed(FloorLimits)

NextFloor == update \/ PointerDown \/ PointerUp

SpecFloor == InitFloor /\ [][NextFloor]_vars

---------------------------------------------------------------------------
(* Properties                                                              *)

OtherMode(m) == IF m = "TREE" THEN "SCATTER" ELSE "TREE"

\* C1: a click-classified gesture switches TREE to SCATTER or SCATTER to
\* TREE, and two consecutive click-classified gestures return mode to the
\* value it had before the first of them (clickLog holds the mode each of
\* the last two clicks found).
C1_TwoClicksRestoreMode ==
    /\ Len(clickLog) >= 1 => state.mode = OtherMode(clickLog[Len(clickLog)])
    /\ Len(clickLog) = 2 => state.mode = clickLog[1]

\* two clicks have been made, with a frame and a drag in the run
C1_Witness ==
    /\ Len(clickLog) = 2
    /\ state.mode = "TREE"
    /\ frames > 0
    /\ handled.pointer >= 4

\* C2: the pointer-up of a gesture advances mode if and only if it lies
\* strictly less than 5 px from the accepted pointer-down: a displacement of
\* exactly 5 leaves mode unchanged, a displacement of 0 toggles it.
C2_ClickIffWithinFivePixels ==
    lastUp.held =>
        /\ (state.mode # lastUp.before)
              <=> (lastUp.dx * lastUp.dx + lastUp.dy * lastUp.dy < 25)
        /\ (lastUp.dx = 0 /\ lastUp.dy = 0) => state.mode = OtherMode(lastUp.before)
        /\ ({Abs(lastUp.dx), Abs(lastUp.dy)} \in {{5, 0}, {3, 4}})
              => state.mode = lastUp.before

\* a pointer-up at displacement (3, 4), exactly 5 px, has left mode as it was
C2_Witness ==
    /\ lastUp.held
    /\ lastUp.dx = 3 /\ lastUp.dy = 4
    /\ state.mode = lastUp.before
    /\ ~state.isPointerDown

\* C3: the descriptor and the jitter of every particle keep the values
\* initTreeParticles gave them, whatever frames, pointer events, theme
\* changes and resizes happen.
C3_DescriptorsImmutable ==
    [][treeBranchParams' = treeBranchParams /\ treeJitters' = treeJitters]_vars

\* a frame, a toggling gesture, a theme change and a resize have all happened
C3_Witness ==
    /\ frames >= 1
    /\ state.mode = "SCATTER"
    /\ handled.theme >= 1 /\ state.theme = "gold"
    /\ handled.resize >= 1 /\ camera.width = 1920

\* C4: a call of updateTreeColors changes the colour buffer only: the
\* descriptors, jitters and live positions, the mode, the manual rotation and
\* the hand signal are what they were before the theme change.
C4_RecolourTouchesColoursOnly ==
    [][handled'.theme # handled.theme =>
          /\ treeBranchParams' = treeBranchParams
          /\ treeJitters' = treeJitters
          /\ positions' = positions
          /\ state'.mode = state.mode
          /\ state'.manualRotX = state.manualRotX
          /\ state'.manualRotY = state.manualRotY
          /\ state'.handX = state.handX
          /\ state'.handY = state.handY]_vars

\* the colour buffer holds the gold palette after a theme change made once
\* the positions have moved and the mode has been toggled
C4_Witness ==
    /\ handled.theme >= 1
    /\ \A i \in Particles : colors[i].hex \in {THEMES["gold"].glow, THEMES["gold"].needle}
    /\ frames >= 1
    /\ state.mode = "SCATTER"

\* C5: at the end of every frame every meteor has height >= -1200 and a
\* horizontal coordinate <= 3500, and a meteor that reset() has just placed
\* (in the constructor or in that frame's update) has height in [800, 1600)
\* and a negative horizontal coordinate: it is respawned, not clamped.
C5_MeteorsRecycledInBounds ==
    \A k \in DOMAIN meteors :
        /\ meteors[k].position.y >= -1200000
        /\ meteors[k].position.x <= 3500000
        /\ meteors[k].justReset =>
              /\ meteors[k].position.y >= 800000
              /\ meteors[k].position.y < 1600000
              /\ meteors[k].position.x < 0

\* a frame has reset the meteor that leaves past the right-hand bound
C5_Witness ==
    /\ frames > 0
    /\ meteors[2].justReset
    /\ meteors[2].position.x < 0

\* C6: the pool holds exactly CONFIG.meteorCount (6) meteors in every
\* reachable state, the same meshes in the same order: a reset re-initialises
\* a meteor in place.
C6_PoolIsConstant ==
    /\ DOMAIN meteors = 1 .. 6
    /\ \A k \in DOMAIN meteors : meteors[k].mesh = k

\* a frame has recycled a meteor, and six meteors are in the pool
C6_Witness ==
    /\ frames > 0
    /\ \E k \in DOMAIN meteors : meteors[k].justReset
    /\ Cardinality(DOMAIN meteors) = 6

\* C7: a frame evaluated while the landmarker is not yet created or the video
\* is missing or not ready does not call the detector, and such a frame, like
\* one whose detection finds no hand, leaves handX and handY at their previous
\* values and raises no exception; the detector is only ever called with a
\* landmarker and a video element that has data.
C7_NoSignalKeepsHand ==
    [][frames' # frames =>
          /\ (handLandmarker = "null" \/ video.el = "null"
                \/ video.readyState < 2) => lastDetect' = "skipped"
          /\ lastDetect' \in {"skipped", "nohand"} =>
                /\ state'.handX = state.handX
                /\ state'.handY = state.handY
          /\ uncaught' = uncaught
          /\ frames' = frames + 1]_vars

\* a hand was tracked and then lost: the last frame found no hand and the
\* hand signal still holds the values of the earlier detection
C7_Witness ==
    /\ lastDetect = "nohand"
    /\ state.handX = -500
    /\ state.handY = 1000
    /\ frames >= 2

\* C8: a theme-change request whose value is no key of THEMES leaves
\* state.theme and every particle colour exactly as they were.
C8_InvalidThemeRejected ==
    [][(handled'.theme # handled.theme /\ themeSelector' \notin ThemeName) =>
          /\ state'.theme = state.theme
          /\ colors' = colors]_vars

\* C9: with treeParticleCount = 0 or tiers = 0 construction fails, so no
\* frame is ever evaluated for such a CONFIG.
C9_DegenerateConfigFailsFast ==
    (config.treeParticleCount = 0 \/ config.tiers = 0) => frames = 0

Dist2(p, q) ==
    (p.x - q.x) * (p.x - q.x) + (p.y - q.y) * (p.y - q.y) + (p.z - q.z) * (p.z - q.z)

Coordinates(p) == <<p.x, p.y, p.z>>

\* C10 as claimed: every application moves the position strictly closer to
\* the target, and after 75 applications the distance is at most 1% of the
\* initial distance.
C10_StrictContraction ==
    /\ probe.steps >= 1 =>
          Dist2(probe.position, probe.target) < Dist2(probe.previous, probe.target)
    /\ probe.steps = 75 =>
          Dist2(probe.position, probe.target) <= Dist2(probe.start, probe.target) \div 10000

\* C10 as amended: the step is rounded to the resolution of the position
\* buffer (one unit here).  Per coordinate an application never overshoots
\* the target and never moves away from it, and it moves strictly closer
\* whenever 6% of the coordinate's distance is at least one unit; the
\* Euclidean distance never grows; after 75 applications each coordinate's
\* distance is at most 1% of its initial distance plus 9 units.
C10_RoundedContraction ==
    LET now == Coordinates(probe.position)
        was == Coordinates(probe.previous)
        goal == Coordinates(probe.target)
        from == Coordinates(probe.start)
    IN  /\ probe.steps >= 1 =>
              /\ \A c \in 1 .. 3 :
                    /\ (goal[c] >= was[c]) => (was[c] <= now[c] /\ now[c] <= goal[c])
                    /\ (goal[c] <= was[c]) => (goal[c] <= now[c] /\ now[c] <= was[c])
                    /\ (Abs(goal[c] - was[c]) * 60 >= 1000)
                          => Abs(goal[c] - now[c]) < Abs(goal[c] - was[c])
              /\ Dist2(probe.position, probe.target)
                    <= Dist2(probe.previous, probe.target)
        /\ probe.steps = 75 =>
              \A c \in 1 .. 3 :
                  100 * Abs(goal[c] - now[c]) <= Abs(goal[c] - from[c]) + 900

\* 75 applications have been made from a start 24 units away per coordinate,
\* and the position has stopped short of the target
C10_Witness ==
    /\ probe.steps = 75
    /\ probe.start = Vec(12000, 12000, 12000)
    /\ probe.target = Vec(-12000, 5000, 12005)
    /\ probe.position # probe.target
    /\ probe.position # probe.previous

\* C11 as claimed: every stored descriptor has branchFraction in [0, 1), tier
\* an integer in [0, tierCount) and branchAngle in [0, 2 * pi).
C11_DescriptorRangesHalfOpen ==
    \A i \in Particles :
        /\ 0 <= treeBranchParams[i].distFromCenter
        /\ treeBranchParams[i].distFromCenter < 1000
        /\ treeBranchParams[i].tier \in 0 .. (config.tiers - 1)
        /\ 0 <= treeBranchParams[i].branchAngle
        /\ treeBranchParams[i].branchAngle < TwoPi

\* C11 as amended: the tier is an integer in [0, tierCount); branchFraction
\* and branchAngle are stored rounded to the resolution of the buffer, so a
\* draw within half a unit of 1 is stored as the upper end itself: the stored
\* branchFraction is in [0, 1] and the stored branchAngle in [0, 2 * pi].
C11_DescriptorRangesClosed ==
    \A i \in Particles :
        /\ 0 <= treeBranchParams[i].distFromCenter
        /\ treeBranchParams[i].distFromCenter <= 1000
        /\ treeBranchParams[i].tier \in 0 .. (config.tiers - 1)
        /\ 0 <= treeBranchParams[i].branchAngle
        /\ treeBranchParams[i].branchAngle <= TwoPi

\* one particle's descriptor is at the lower ends (tier 0, angle 0, fraction
\* 0) and another's at the upper ends (tier 29, fraction 1, angle 2 * pi)
C11_Witness ==
    /\ \E i \in Particles :
          /\ treeBranchParams[i].tier = 0
          /\ treeBranchParams[i].distFromCenter = 0
          /\ treeBranchParams[i].branchAngle = 0
    /\ \E i \in Particles :
          /\ treeBranchParams[i].tier = 29
          /\ treeBranchParams[i].distFromCenter = 1000
          /\ treeBranchParams[i].branchAngle = TwoPi

\* C12: once the theme is a theme T of THEMES and the colour step has run,
\* every particle's colour comes from T's palette: a branch particle has
\* T.glow scaled by 1.02, any other particle has T.needle with a lightness
\* offset in [-0.025, 0.025) or one of T's four ornament colours scaled by 0.9.
C12_ColoursFollowTheme ==
    state.theme \in ThemeName =>
        \A i \in Particles :
            LET T == THEMES[state.theme]
                c == colors[i]
            IN  IF treeBranchParams[i].isBranch = 1
                THEN c.hex = T.glow /\ c.mul = 1020 /\ c.dl = 0
                ELSE \/ c.hex = T.needle /\ c.mul = 1000
                        /\ -25000 <= c.dl /\ c.dl < 25000
                     \/ /\ \E k \in 1 .. 4 : c.hex = T.ornaments[k]
                        /\ c.mul = 900
                        /\ c.dl = 0

\* the theme has been switched from classic to gold after a frame: a branch
\* particle has gold's glow and a needle particle gold's needle at the
\* largest lightness offset
C12_Witness ==
    /\ handled.theme >= 1
    /\ state.theme = "gold"
    /\ frames >= 1
    /\ \E i \in Particles :
          treeBranchParams[i].isBranch = 1 /\ colors[i].hex = THEMES["gold"].glow
    /\ \E i \in Particles :
          /\ treeBranchParams[i].isBranch = 0
          /\ colors[i].hex = THEMES["gold"].needle
          /\ colors[i].dl = 24950

\* C13: a pointer-move that arrives while the pointer is not held changes
\* no field of the state; a pointer-move at (x, y) while the pointer is held
\* adds 0.005 * (x - pointerX) to manualRotY and 0.005 * (y - pointerY) to
\* manualRotX, records (x, y) as the pointer position and changes no other
\* field.
C13_MoveRotatesOnlyWhileHeld ==
    [][\A p \in PointerPoints :
          onPointerMove(p[1], p[2]) =>
              IF ~state.isPointerDown
              THEN state' = state
              ELSE /\ state'.manualRotY = state.manualRotY + 5 * (p[1] - state.pointerX)
                   /\ state'.manualRotX = state.manualRotX + 5 * (p[2] - state.pointerY)
                   /\ state'.pointerX = p[1]
                   /\ state'.pointerY = p[2]
                   /\ state'.mode = state.mode
                   /\ state'.theme = state.theme
                   /\ state'.isPointerDown
                   /\ state'.clickStartPos = state.clickStartPos
                   /\ state'.handX = state.handX
                   /\ state'.handY = state.handY]_vars

\* two held moves, (0,0) -> (5,0) -> (3,4), have accumulated 0.015 rad about
\* y and 0.020 rad about x, and the pointer is still held
C13_Witness ==
    /\ state.isPointerDown
    /\ gesture.moves = 2
    /\ gesture.down = [x |-> 0, y |-> 0]
    /\ state.pointerX = 3 /\ state.pointerY = 4
    /\ state.manualRotY = 15
    /\ state.manualRotX = 20

\* C14: a pointer-up that finds the pointer held toggles mode exactly when it
\* lies less than 5 px from the most recent accepted pointer-down, whatever
\* the number and the extent of the pointer-moves in between.
C14_ClassificationIgnoresMoves ==
    [][(state.isPointerDown /\ ~state'.isPointerDown) =>
          /\ lastUp'.moves = gesture.moves
          /\ lastUp'.far = gesture.far
          /\ (state'.mode # state.mode)
                <=> ((lastUp'.x - gesture.down.x) * (lastUp'.x - gesture.down.x)
                     + (lastUp'.y - gesture.down.y) * (lastUp'.y - gesture.down.y)
                     < 25)]_vars

\* a drag of three moves that went 5 px away and came back has ended where it
\* started, and has toggled mode
C14_Witness ==
    /\ lastUp.held
    /\ lastUp.moves = 3
    /\ lastUp.far
    /\ lastUp.x = gesture.down.x /\ lastUp.y = gesture.down.y
    /\ state.mode = "SCATTER"
    /\ lastUp.before = "TREE"
    /\ ~state.isPointerDown

\* C15: a step that changes mode leaves every live position as it was, and
\* a frame moves each coordinate of each particle by 6% of its distance (as
\* the position buffer rounds it) toward the target of the field of the
\* current mode alone: the TREE target in TREE mode, the SCATTER target in
\* SCATTER mode.
C15_ToggleNeverJumps ==
    [][/\ state'.mode # state.mode => positions' = positions
       /\ frames' # frames =>
             \A i \in Particles :
                 LET field == IF state.mode = "TREE" THEN TreeTarget(i, time')
                              ELSE ScatterTarget(i, time')
                     now == Coordinates(positions[i])
                     next == Coordinates(positions'[i])
                     goal == Coordinates(field)
                 IN  \A c \in 1 .. 3 :
                         next[c] = now[c] + RoundDiv(60 * (goal[c] - now[c]), 1000)]_vars

\* the first frame ran after a click had switched the mode to SCATTER: the
\* first particle is 6% of the way from where it was created to its SCATTER
\* target
C15_Witness ==
    /\ state.mode = "SCATTER"
    /\ lastUp.held /\ lastUp.before = "TREE"
    /\ frames = 1
    /\ positions[0] = Integrate(GenPosition(ParticleDraw(0)), ScatterTarget(0, time))
    /\ positions[0] # GenPosition(ParticleDraw(0))

\* the value a frame leaves in v when it eases v toward goal with factor f
\* (thousandths)
Eased(v, goal, f) == RoundDiv((1000 - f) * v + f * goal, 1000)

\* the heart's target scale in a frame that reads the clock at t
HeartGoal(t) ==
    IF state.mode = "TREE" THEN 1000 + RoundDiv(60 * Sin((25 * t) \div 10), 1000) ELSE 0

\* the floor's target height
FloorGoal == IF state.mode = "TREE" THEN -52000 ELSE -140000

\* the scene group advances toward (handY * 0.18 + manualRotX,
\* handX * 0.35 + manualRotY) and the floor toward its target, both with
\* factor 0.05
GroupAndFloorEaseAtFivePercent ==
    /\ mainGroupRot'.x = Eased(mainGroupRot.x,
                               RoundDiv(180 * state'.handY, 1000) + state.manualRotX, 50)
    /\ mainGroupRot'.y = Eased(mainGroupRot.y,
                               RoundDiv(350 * state'.handX, 1000) + state.manualRotY, 50)
    /\ galaxyFloor'.positionY = Eased(galaxyFloor.positionY, FloorGoal, 50)

\* C16 as claimed: in every frame the heart's scale advances toward its
\* target with the same factor 0.05 as the floor's height and the scene
\* group's rotation.
C16_HeartEasesLikeFloor ==
    [][frames' # frames =>
          /\ GroupAndFloorEaseAtFivePercent
          /\ heart'.scale = Eased(heart.scale, HeartGoal(time'), 50)]_vars

\* C16 as amended: in every frame the floor's height and the scene group's
\* rotation advance toward their targets with factor 0.05, and the heart's
\* scale advances toward its target (0 in SCATTER mode,
\* 1 + 0.06 * sin(2.5 * time) in TREE mode) with factor 0.1.
C16_HeartEasesTwiceAsFast ==
    [][frames' # frames =>
          /\ GroupAndFloorEaseAtFivePercent
          /\ heart'.scale = Eased(heart.scale, HeartGoal(time'), 100)]_vars

\* a frame ran in SCATTER mode with a hand detected: the heart has shrunk from
\* 1 to 0.9, the floor has sunk 5% of the way from -52 to -140, and the group
\* has turned toward the hand
C16_Witness ==
    /\ frames = 1
    /\ state.mode = "SCATTER"
    /\ lastDetect = "hand"
    /\ heart.scale = 900
    /\ galaxyFloor.positionY = -56400
    /\ mainGroupRot.y # 0

\* C17: every stored branchAngle is one of the 8 + tier equally spaced
\* directions of its tier: k * 2 * pi / (8 + tier) for an integer k in
\* 0 .. 7 + tier.
C17_BranchAngleQuantized ==
    \A i \in Particles :
        LET branches == 8 + treeBranchParams[i].tier
        IN  \E k \in 0 .. (branches - 1) :
                treeBranchParams[i].branchAngle = RoundDiv(k * TwoPi, branches)

\* C18: in a frame evaluated in TREE mode the target height of every
\* particle is at least -51.8, and a particle whose live height is at least
\* -51.8 before the frame has a live height of at least -51.8 after it.
C18_TreeStaysAboveFloor ==
    [][(frames' # frames /\ state.mode = "TREE") =>
          \A i \in Particles :
              /\ TreeTarget(i, time').y >= -51800
              /\ positions[i].y >= -51800 => positions'[i].y >= -51800]_vars

\* more than two seconds into the run a needle particle at the tip of a
\* branch of the lowest tier, created 199.6 above the origin, has come down to
\* below -40, and a particle created at -200 has risen above the floor limit
C18_Witness ==
    /\ frames >= 150
    /\ state.mode = "TREE"
    /\ \E i \in Particles :
          /\ treeBranchParams[i].tier = 29
          /\ treeBranchParams[i].distFromCenter = 1000
          /\ positions[i].y <= -40000
          /\ positions[i].y >= -51800
    /\ \E i \in Particles :
          /\ treeBranchParams[i].tier = 0
          /\ positions[i].y >= -51800

\* the orbit of particle i of n at elapsed time t, from these three numbers
\* alone: radius 90 + 60 * sin(300 * i/n + t), angle 4 * pi * i/n + 0.4 * t
\* about the vertical axis, height sin(180 * i/n + 0.2 * t) * radius
ScatterOrbit(i, n, t) ==
    LET r == 90000 + RoundDiv(60000 * Sin((i * 300000) \div n + t), 1000)
    IN  [x |-> RoundDiv(Cos((i * 4 * Pi) \div n + (t * 4) \div 10) * r, 1000),
         y |-> RoundDiv(Sin((i * 180000) \div n + (t * 2) \div 10) * r, 1000),
         z |-> RoundDiv(Sin((i * 4 * Pi) \div n + (t * 4) \div 10) * r, 1000)]

\* C19: in a SCATTER frame the target of particle i is the orbit given by i,
\* the particle count and the elapsed time, whatever the particle's
\* descriptor, jitter and colour and whatever the theme; and in either mode
\* the positions a frame leaves are determined by the state before it and the
\* elapsed time, no draw entering the field.
C19_ScatterIgnoresDescriptor ==
    [][frames' # frames =>
          \A i \in Particles :
              /\ state.mode = "SCATTER" =>
                    positions'[i] =
                        Integrate(positions[i],
                                  ScatterOrbit(i, config.treeParticleCount, time'))
              /\ state.mode = "TREE" =>
                    positions'[i] = Integrate(positions[i], TreeTarget(i, time'))]_vars

\* the first frame ran in SCATTER mode, under the gold theme, on a particle
\* of tier 29 with a jitter: it is 6% of the way to the orbit of its index
C19_Witness ==
    /\ frames = 1
    /\ state.mode = "SCATTER"
    /\ state.theme = "gold"
    /\ treeBranchParams[0].tier = 29
    /\ treeJitters[0].x # 0
    /\ positions[0] = Integrate(GenPosition(ParticleDraw(999)),
                                ScatterOrbit(0, config.treeParticleCount, time))

\* C20: mode is always TREE or SCATTER and changes only in a pointer-up that
\* finds the pointer held and lies less than 5 px from the accepted
\* pointer-down; a frame, a pointer-move, a theme change, a resize, a
\* pointer-up that finds the pointer not held, and a pointer-up that follows
\* a pointer-down on a SELECT, BUTTON or OPTION element leave mode unchanged.
C20_ModeChangesOnlyOnClick ==
    [][/\ state'.mode \in Mode
       /\ state'.mode # state.mode =>
             /\ state.isPointerDown
             /\ \E p \in PointerPoints :
                   /\ onPointerUp(p[1], p[2])
                   /\ (p[1] - state.clickStartPos.x) * (p[1] - state.clickStartPos.x)
                      + (p[2] - state.clickStartPos.y) * (p[2] - state.clickStartPos.y)
                      < 25
       /\ frames' # frames => state'.mode = state.mode
       /\ handled'.theme # handled.theme => state'.mode = state.mode
       /\ handled'.resize # handled.resize => state'.mode = state.mode
       /\ (\E p \in PointerPoints : onPointerMove(p[1], p[2]))
             => state'.mode = state.mode
       /\ (~state.isPointerDown /\ \E p \in PointerPoints : onPointerUp(p[1], p[2]))
             => state'.mode = state.mode
       /\ (gesture.rejected /\ \E p \in PointerPoints : onPointerUp(p[1], p[2]))
             => state'.mode = state.mode]_vars

\* C21: while the pointer is held, the manual rotation accumulated since the
\* accepted pointer-down is 0.005 times the net displacement of the pointer
\* from clickStartPos, about y for the horizontal and about x for the
\* vertical displacement, whatever the number and the path of the moves.
C21_RotationFollowsNetDisplacement ==
    state.isPointerDown =>
        /\ state.manualRotY - gesture.rotY = 5 * (state.pointerX - state.clickStartPos.x)
        /\ state.manualRotX - gesture.rotX = 5 * (state.pointerY - state.clickStartPos.y)

\* a gesture that began with a rotation left by an earlier drag has made two
\* moves, has been 5 px or more away from where it began, and the pointer is
\* now off its start
C21_Witness ==
    /\ state.isPointerDown
    /\ gesture.moves >= 2
    /\ gesture.far
    /\ gesture.rotY # 0
    /\ state.pointerX # state.clickStartPos.x
    /\ state.manualRotY # gesture.rotY


\* the floor's vertical offset lies between a and b, in either order
FloorBetween(y, a, b) == (a <= y /\ y <= b) \/ (b <= y /\ y <= a)

\* C23: the floor's vertical offset starts at -52 and lies in [-140, -52] in
\* every state; a frame leaves it between its old value and the target of the
\* current mode, strictly closer to the target when it is 0.02 or more away,
\* and no other step changes it.
C23_FloorStaysBetweenTargets ==
    /\ galaxyFloor.positionY = -52000
    /\ [](-140000 <= galaxyFloor.positionY /\ galaxyFloor.positionY <= -52000)
    /\ [][/\ frames' = frames + 1 =>
                /\ FloorBetween(galaxyFloor'.positionY,
                                galaxyFloor.positionY, FloorGoal)
                /\ FloorGoal - galaxyFloor.positionY >= 20
                      => galaxyFloor'.positionY > galaxyFloor.positionY
                /\ galaxyFloor.positionY - FloorGoal >= 20
                      => galaxyFloor'.positionY < galaxyFloor.positionY
          /\ frames' = frames => galaxyFloor'.positionY = galaxyFloor.positionY]_vars

\* after a click into SCATTER and a click back into TREE, 50 or more frames
\* into the run, the floor has come back up to within 0.3 of -52 from below
C23_Witness ==
    /\ state.mode = "TREE"
    /\ handled.pointer = 4
    /\ galaxyFloor.positionY < -52000
    /\ galaxyFloor.positionY > -52300
    /\ frames >= 50


\* the number of frames after which a meteor moving with its velocity has
\* fallen below the lower bound or passed the right-hand one
FramesToLeave(m) ==
    LET fall == (m.position.y - MeteorMinY) \div (0 - m.velocity.y) + 1
        cross == (MeteorMaxX - m.position.x) \div m.velocity.x + 1
    IN  IF fall < cross THEN fall ELSE cross

\* the squared length of a vector
Norm2(v) == v.x * v.x + v.y * v.y + v.z * v.z

\* C22: every meteor's velocity points right and down with a speed of 3.5 or
\* more (to the thousandth); a frame either resets a meteor or takes it down by
\* 1.9 or more; and, frames being run as long as they are enabled, a meteor in
\* flight whose way out of the sky fits into the frames explored is reset again.
C22_MeteorsAlwaysRecycled ==
    /\ [](\A k \in DOMAIN meteors :
            /\ meteors[k].velocity.x > 0
            /\ meteors[k].velocity.y < 0
            /\ Norm2(meteors[k].velocity) >= 3499 * 3499)
    /\ [][\A k \in DOMAIN meteors :
            frames' = frames + 1 =>
                \/ meteors'[k].justReset
                \/ meteors'[k].position.y <= meteors[k].position.y - 1900]_vars
    /\ \A k \in 1 .. CONFIG.meteorCount :
            (/\ ~meteors[k].justReset
             /\ frames + FramesToLeave(meteors[k]) <= limits.frames)
                ~> meteors[k].justReset

\* the meteor that left past the right-hand bound has just been reset, while
\* the one that fell below the lower bound, reset earlier, is in flight again
C22_Witness ==
    /\ frames > 500
    /\ meteors[2].justReset
    /\ ~meteors[1].justReset
    /\ meteors[1].position.y > 0

===========================================================================
